---- MODULE Spec2Model ----
(***************************************************************************)
(* Model of the aether-throughput probe (src/src/main.rs): the round-trip  *)
(* operation send_msg (a send/receive exchange raced against a timer by    *)
(* tokio::select!), the bounded stream Run::start, and the driver loop of  *)
(* main that records every outcome in the statistics map and renders it.   *)
(*                                                                         *)
(* The 9 runs of 100 round trips of main are scaled down to the first      *)
(* NumRuns runs of NumMsgs round trips each.                               *)
(***************************************************************************)
EXTENDS Integers, Sequences, FiniteSets, TLC

\* ---------------------------------------------------------------- bounds
\* Number of entries of the `runs` vector that are swept (main.rs has 9).
NumRuns == 2
\* Length of the range of Run::start (main.rs has 0..100).
NumMsgs == 3
\* Replies that can be outstanding (in flight or in the socket's receive
\* buffer) at a time: a reply that finds the queue full is dropped.
MaxQueued == 1

\* ------------------------------------------------------------- constants
\* num.to_le_bytes().len() for a usize on a 64-bit target.
USizeBytes == 8
\* The padding byte pushed after the sequence number.
PadByte == 255

\* The `runs` vector of main: (hertz, byte_size) in enumeration order.
runs ==
  << [hertz |-> 4,  byte_size |-> 50], [hertz |-> 4,  byte_size |-> 100],
     [hertz |-> 4,  byte_size |-> 200], [hertz |-> 8,  byte_size |-> 50],
     [hertz |-> 8,  byte_size |-> 100], [hertz |-> 8,  byte_size |-> 200],
     [hertz |-> 16, byte_size |-> 50], [hertz |-> 16, byte_size |-> 100],
     [hertz |-> 16, byte_size |-> 200] >>

\* Nanoseconds in a second: a Duration is kept in nanoseconds.
NanosPerSec == 1000000000

\* Mutant of Timeout: the quotient is taken on whole seconds.
TimeoutTruncated(hertz) == (1 \div hertz) * NanosPerSec

\* Duration::from_secs_f32(1.0 / hertz).  The quotient and its conversion
\* are exact for the rates of `runs`, which are powers of two.
Timeout(hertz) == NanosPerSec \div hertz

\* Run::new(socket, addr, hertz, byte_size)
RunNew(hertz, size) ==
  [hertz |-> hertz, timeout |-> Timeout(hertz), byte_size |-> size]

\* The Run values main builds from `runs`.
Runs == [k \in 1 .. Len(runs) |-> RunNew(runs[k].hertz, runs[k].byte_size)]

\* The ids of the swept runs: enumerate() numbers them from 0.
Ids == 0 .. (NumRuns - 1)

\* ------------------------------------------------------ usize and bytes
\* A usize is kept as four 16-bit words, least significant first, so that
\* all 64 bits are represented.
USize(n) == << n % 65536, (n \div 65536) % 65536, 0, 0 >>

\* Mutant of ToLeBytes: the bytes in big-endian order (to_be_bytes).
ToBeBytes(w) ==
  << w[4] \div 256, w[4] % 256, w[3] \div 256, w[3] % 256,
     w[2] \div 256, w[2] % 256, w[1] \div 256, w[1] % 256 >>

\* usize::to_le_bytes
ToLeBytes(w) ==
  << w[1] % 256, w[1] \div 256, w[2] % 256, w[2] \div 256,
     w[3] % 256, w[3] \div 256, w[4] % 256, w[4] \div 256 >>

\* usize::from_le_bytes(buf[0..8])
FromLeBytes(buf) ==
  << buf[1] + 256 * buf[2], buf[3] + 256 * buf[4],
     buf[5] + 256 * buf[6], buf[7] + 256 * buf[8] >>

\* a - b on usize with wrap-around, as the subtraction behaves when overflow
\* checks are off.
WrappingSub(a, b) ==
  LET d1 == a[1] - b[1]
      d2 == a[2] - b[2] - (IF d1 < 0 THEN 1 ELSE 0)
      d3 == a[3] - b[3] - (IF d2 < 0 THEN 1 ELSE 0)
      d4 == a[4] - b[4] - (IF d3 < 0 THEN 1 ELSE 0)
  IN  << d1 % 65536, d2 % 65536, d3 % 65536, d4 % 65536 >>

\* `byte_size - num.to_le_bytes().len()`: the number of padding bytes.
PadCount(size) == WrappingSub(USize(size), USize(USizeBytes))

\* The subtraction overflows: it panics when overflow checks are on.
SubOverflows(size) == size < USizeBytes

\* A Vec<u8> holds at most isize::MAX bytes.
FitsVec(w) == w[4] < 32768

\* A usize below 2^31 as a number.
AsNat(w) == w[1] + 65536 * w[2]

\* Mutant of BuildMsg: one padding byte too few.
BuildMsgShort(n, size) ==
  ToLeBytes(USize(n)) \o [k \in 1 .. (AsNat(PadCount(size)) - 1) |-> PadByte]

\* "build a message of byte_size": the 8 bytes of num, then 0xff padding.
BuildMsg(n, size) ==
  ToLeBytes(USize(n)) \o [k \in 1 .. AsNat(PadCount(size)) |-> PadByte]

\* socket.recv(&mut buf) with buf = [0; 8]: the datagram is truncated to the
\* buffer, and a shorter datagram leaves the rest of the buffer zero.
RecvInto(d) ==
  [k \in 1 .. USizeBytes |-> IF k <= Len(d) THEN d[k] ELSE 0]

\* `if num != ret_num { bail!("oh no") } Ok(ret_num)`: the output of the
\* send_recv future once a datagram d has been received.
Exchange(n, d) ==
  IF USize(n) # FromLeBytes(RecvInto(d)) THEN "Mismatch" ELSE "Ok"

\* ------------------------------------------------------------ responder
\* The peer's reply to a datagram d.  "echo" returns the payload unchanged,
\* "minus1" returns it with the leading little-endian number decremented
\* (wrapping), "silent" never replies.
RECURSIVE DecLe(_)
DecLe(b) ==
  IF b = <<>> THEN <<>>
  ELSE IF Head(b) > 0 THEN << Head(b) - 1 >> \o Tail(b)
  ELSE << 255 >> \o DecLe(Tail(b))

Reply(kind, d) ==
  IF kind = "echo" THEN << d >>
  ELSE IF kind = "minus1"
    THEN << DecLe(SubSeq(d, 1, USizeBytes)) \o SubSeq(d, USizeBytes + 1, Len(d)) >>
  ELSE <<>>

Peers == {"echo", "minus1", "silent"}

\* A bounded datagram queue q offered the datagrams ds (none or one): UDP
\* drops what does not fit.
Enqueue(q, ds) == IF Len(q) + Len(ds) <= MaxQueued THEN q \o ds ELSE q

\* ---------------------------------------------------------------- state
VARIABLES
  pc,       \* position of main: "for", "next", "select", "while", "entry",
            \* "missed", "sent", "render", "done", "aborted"
  idx,      \* index of the run the for loop of main is at
  i,        \* next value of the range of the current stream (Run::start)
  num,      \* send_msg: the sequence number of the call
  window,   \* send_msg: the sleep future, "pending" or "elapsed"
  sr,       \* send_msg: the send_recv future, "start", "recving" or "done"
  out,      \* send_msg: the output of send_recv once done
  recv,     \* send_msg: the local `recv`
  item,     \* the item the stream yielded last
  state,    \* main: HashMap<usize, Stat>
  inbox,    \* replies of the peer not yet received: in flight or queued on
            \* the socket, oldest first
  peer,     \* the responder's behaviour
  shown,    \* the state last handed to console.render
  renders,  \* number of console.render calls
  records,  \* number of completed record updates
  prev,     \* the map as it was when the current record update began
  faulted,  \* a send or receive has failed at the transport layer
  timely,   \* every timer so far elapsed after its exchange completed
  trips,    \* the calls of send_msg so far, as << run index, num >>
  finals,   \* number of calls of send_msg that have returned
  timeout,  \* send_msg: the `timeout` of the call, in nanoseconds
  byte_size,\* send_msg: the `byte_size` of the call
  nsent,    \* datagrams the current call has handed to send_to successfully
  nrecv     \* datagrams the current call has taken from the socket

vars == << pc, idx, i, num, window, sr, out, recv, item, state, inbox,
           peer, shown, renders, records, prev, faulted, timely, trips,
           finals, timeout, byte_size, nsent, nrecv >>

sendVars == << num, window, sr, out, recv >>
netVars == << inbox, peer >>
sinkVars == << shown, renders >>
histVars == << records, prev, faulted, timely >>
orderVars == << trips, finals >>
callVars == << timeout, byte_size, nsent, nrecv >>

\* The empty HashMap.
EmptyMap == [id \in {} |-> [sent |-> 0, missed |-> 0]]

\* Stat::default()
DefaultStat == [sent |-> 0, missed |-> 0]

Init ==
  /\ pc = "for"
  /\ idx = 0
  /\ i = 0
  /\ num = 0
  /\ window = "pending"
  /\ sr = "done"
  /\ out = "None"
  /\ recv = FALSE
  /\ item = [tag |-> "None"]
  /\ state = EmptyMap
  /\ inbox = <<>>
  /\ peer \in Peers
  /\ shown = EmptyMap
  /\ renders = 0
  /\ records = 0
  /\ prev = EmptyMap
  /\ faulted = FALSE
  /\ timely = TRUE
  /\ trips = <<>>
  /\ finals = 0
  /\ timeout = 0
  /\ byte_size = 0
  /\ nsent = 0
  /\ nrecv = 0

\* ----------------------------------------------------------- Run::start
\* Mutant of RangeNext: the range steps by two.
RangeSkip(n) == n + 2

\* Mutant of RangeNext: the range never advances.
RangeRepeat(n) == n

\* The value the range hands to the loop body, and the range's next value.
RangeNext(n) == n + 1

\* `for (idx, r) in runs.iter().enumerate()`: take the next run and create
\* its stream, or leave the loop and return Ok(()).
ForRuns ==
  /\ pc = "for"
  /\ IF idx < NumRuns
       THEN /\ i' = 0
            /\ pc' = "next"
       ELSE /\ pc' = "done"
            /\ UNCHANGED i
  /\ UNCHANGED << idx, sendVars, item, state, netVars, sinkVars, histVars >>
  /\ UNCHANGED orderVars
  /\ UNCHANGED callVars

\* stream.next(): the stream's loop calls send_msg for the next number of
\* 0..NumMsgs, or the stream ends and the while loop of main is left.
StreamNext ==
  /\ pc = "next"
  /\ IF i < NumMsgs
       THEN /\ num' = i
            /\ i' = RangeNext(i)
            /\ window' = "pending"
            /\ sr' = "start"
            /\ out' = "None"
            /\ recv' = FALSE
            /\ pc' = "select"
            /\ trips' = Append(trips, << idx, i >>)
            /\ timeout' = Runs[idx + 1].timeout
            /\ byte_size' = Runs[idx + 1].byte_size
            /\ nsent' = 0
            /\ nrecv' = 0
            /\ UNCHANGED << idx, finals >>
       ELSE /\ idx' = idx + 1
            /\ pc' = "for"
            /\ UNCHANGED << i, sendVars, trips, finals, callVars >>
  /\ UNCHANGED << item, state, netVars, sinkVars, histVars >>

\* -------------------------------------------------------------- send_msg
\* The datagram send_msg builds for the current call.
Payload == BuildMsg(num, byte_size)

\* The sleep future completes: the deadline of `window` passes.
TimerFires ==
  /\ pc = "select"
  /\ window = "pending"
  /\ window' = "elapsed"
  /\ timely' = (timely /\ sr = "done")
  /\ UNCHANGED << pc, idx, i, num, sr, out, recv, item, state, netVars,
                  sinkVars, records, prev, faulted >>
  /\ UNCHANGED orderVars
  /\ UNCHANGED callVars

\* Mutant of WindowReady: the window arm is never ready.
WindowNever == FALSE

\* Mutant of WindowReady: send_msg also returns as soon as `recv` is set.
WindowOrMatch == window = "elapsed" \/ recv

\* The `() = &mut window` arm is taken once the sleep future is ready.
WindowReady == window = "elapsed"

\* Mutant of Returned: the error of a failed exchange is returned.
ReturnedPropagating(r) ==
  IF out \in {"SendErr", "RecvErr"}
    THEN [tag |-> "Err"]
    ELSE [tag |-> "Ok", val |-> r]

\* Mutant of Returned: `return Ok(true)`.
ReturnedTrue(r) == [tag |-> "Ok", val |-> TRUE]

\* `return Ok(recv)`
Returned(r) == [tag |-> "Ok", val |-> r]

\* select! takes the window arm: send_msg returns and the stream yields the
\* value.  (select! polls its arms in random order, so this arm may be taken
\* while send_recv is ready as well.)
SelectWindow ==
  /\ pc = "select"
  /\ WindowReady
  /\ item' = Returned(recv)
  /\ finals' = finals + 1
  /\ pc' = "while"
  /\ UNCHANGED << idx, i, sendVars, state, netVars, sinkVars, histVars,
                  trips >>
  /\ UNCHANGED callVars

\* Mutant of ArmRecv: the arm leaves `recv` false.
ArmRecvNever(r) == FALSE

\* The value the `_ = &mut send_recv` arm gives to `recv`, whatever the
\* output r of the future is.
ArmRecv(r) == TRUE

\* socket.send_to succeeds and the datagram reaches the peer, whose reply
\* (if it makes one) is on its way; the future awaits recv.
SendToOk ==
  /\ pc = "select"
  /\ sr = "start"
  /\ inbox' = Enqueue(inbox, Reply(peer, Payload))
  /\ sr' = "recving"
  /\ UNCHANGED << pc, idx, i, num, window, out, recv, item, state, peer,
                  sinkVars, histVars >>
  /\ UNCHANGED orderVars
  /\ nsent' = nsent + 1
  /\ UNCHANGED << timeout, byte_size, nrecv >>

\* socket.send_to succeeds and UDP loses the datagram or its reply; the
\* future awaits recv.
SendToLost ==
  /\ pc = "select"
  /\ sr = "start"
  /\ peer # "silent"
  /\ sr' = "recving"
  /\ UNCHANGED << pc, idx, i, num, window, out, recv, item, state, netVars,
                  sinkVars, histVars >>
  /\ UNCHANGED orderVars
  /\ nsent' = nsent + 1
  /\ UNCHANGED << timeout, byte_size, nrecv >>

\* socket.send_to fails: `?` completes send_recv with the error and select!
\* takes the send_recv arm.
SendToFails ==
  /\ pc = "select"
  /\ sr = "start"
  /\ sr' = "done"
  /\ out' = "SendErr"
  /\ recv' = ArmRecv("SendErr")
  /\ faulted' = TRUE
  /\ UNCHANGED << pc, idx, i, num, window, item, state, netVars, sinkVars,
                  records, prev, timely >>
  /\ UNCHANGED orderVars
  /\ UNCHANGED callVars

\* Mutant of RecvOk: the exchange is not done after its first datagram and
\* goes on receiving.
RecvOkAgain ==
  /\ pc = "select"
  /\ sr = "recving"
  /\ inbox # <<>>
  /\ inbox' = Tail(inbox)
  /\ sr' = "recving"
  /\ out' = Exchange(num, Head(inbox))
  /\ recv' = ArmRecv(Exchange(num, Head(inbox)))
  /\ UNCHANGED << pc, idx, i, num, window, item, state, peer,
                  sinkVars, histVars >>
  /\ UNCHANGED orderVars
  /\ nrecv' = nrecv + 1
  /\ UNCHANGED << timeout, byte_size, nsent >>

\* socket.recv returns the first queued datagram: the number is decoded and
\* compared, send_recv completes, and select! takes the send_recv arm.
RecvOk ==
  /\ pc = "select"
  /\ sr = "recving"
  /\ inbox # <<>>
  /\ inbox' = Tail(inbox)
  /\ sr' = "done"
  /\ out' = Exchange(num, Head(inbox))
  /\ recv' = ArmRecv(Exchange(num, Head(inbox)))
  /\ UNCHANGED << pc, idx, i, num, window, item, state, peer,
                  sinkVars, histVars >>
  /\ UNCHANGED orderVars
  /\ nrecv' = nrecv + 1
  /\ UNCHANGED << timeout, byte_size, nsent >>

\* socket.recv fails: `?` completes send_recv with the error and select!
\* takes the send_recv arm.
RecvFails ==
  /\ pc = "select"
  /\ sr = "recving"
  /\ sr' = "done"
  /\ out' = "RecvErr"
  /\ recv' = ArmRecv("RecvErr")
  /\ faulted' = TRUE
  /\ UNCHANGED << pc, idx, i, num, window, item, state, netVars, sinkVars,
                  records, prev, timely >>
  /\ UNCHANGED orderVars
  /\ UNCHANGED callVars

\* ------------------------------------------------------------------ main
\* `while let Some(Ok(msg)) = stream.next().await`: an Ok item enters the
\* loop body, any other item leaves the while loop for the next run.
WhileLet ==
  /\ pc = "while"
  /\ IF item.tag = "Ok"
       THEN /\ pc' = "entry"
            /\ UNCHANGED idx
       ELSE /\ pc' = "for"
            /\ idx' = idx + 1
  /\ UNCHANGED << i, sendVars, item, state, netVars, sinkVars, histVars >>
  /\ UNCHANGED orderVars
  /\ UNCHANGED callVars

\* Mutant of RecordEntry: the entry of the next id is created as well.
RecordEntryEager ==
  /\ pc = "entry"
  /\ prev' = state
  /\ state' = [id \in DOMAIN state \cup {idx, idx + 1} |->
                 IF id \in DOMAIN state THEN state[id] ELSE DefaultStat]
  /\ pc' = "missed"
  /\ UNCHANGED << idx, i, sendVars, item, netVars, sinkVars, records,
                  faulted, timely >>
  /\ UNCHANGED orderVars
  /\ UNCHANGED callVars

\* `let stat = state.entry(idx).or_default()`
RecordEntry ==
  /\ pc = "entry"
  /\ prev' = state
  /\ state' = IF idx \in DOMAIN state
                THEN state
                ELSE [id \in DOMAIN state \cup {idx} |->
                        IF id = idx THEN DefaultStat ELSE state[id]]
  /\ pc' = "missed"
  /\ UNCHANGED << idx, i, sendVars, item, netVars, sinkVars, records,
                  faulted, timely >>
  /\ UNCHANGED orderVars
  /\ UNCHANGED callVars

\* Mutant of RecordMissed: the test is inverted, `if msg { ... }`.
RecordMissedInverted ==
  /\ pc = "missed"
  /\ state' = IF item.val
                THEN [state EXCEPT ![idx].missed = @ + 1]
                ELSE state
  /\ pc' = "sent"
  /\ UNCHANGED << idx, i, sendVars, item, netVars, sinkVars, histVars >>
  /\ UNCHANGED orderVars
  /\ UNCHANGED callVars

\* `if !msg { stat.missed += 1; }`
RecordMissed ==
  /\ pc = "missed"
  /\ state' = IF ~item.val
                THEN [state EXCEPT ![idx].missed = @ + 1]
                ELSE state
  /\ pc' = "sent"
  /\ UNCHANGED << idx, i, sendVars, item, netVars, sinkVars, histVars >>
  /\ UNCHANGED orderVars
  /\ UNCHANGED callVars

\* Mutant of RecordSent: `sent` is incremented in an else branch, for
\* Delivered outcomes only.
RecordSentIfDelivered ==
  /\ pc = "sent"
  /\ state' = IF item.val
                THEN [state EXCEPT ![idx].sent = @ + 1]
                ELSE state
  /\ records' = records + 1
  /\ pc' = "render"
  /\ UNCHANGED << idx, i, sendVars, item, netVars, sinkVars, prev, faulted,
                  timely >>
  /\ UNCHANGED orderVars
  /\ UNCHANGED callVars

\* `stat.sent += 1;`
RecordSent ==
  /\ pc = "sent"
  /\ state' = [state EXCEPT ![idx].sent = @ + 1]
  /\ records' = records + 1
  /\ pc' = "render"
  /\ UNCHANGED << idx, i, sendVars, item, netVars, sinkVars, prev, faulted,
                  timely >>
  /\ UNCHANGED orderVars
  /\ UNCHANGED callVars

\* Mutant of Snapshot: the map as it was before the update is rendered.
SnapshotStale == prev

\* What `state!(&state)` hands to console.render.
Snapshot == state

\* `console.render(&state)?` returns Ok: the loop polls the stream again.
RenderOk ==
  /\ pc = "render"
  /\ shown' = Snapshot
  /\ renders' = renders + 1
  /\ pc' = "next"
  /\ UNCHANGED << idx, i, sendVars, item, state, netVars, histVars >>
  /\ UNCHANGED orderVars
  /\ UNCHANGED callVars

\* `console.render(&state)?` returns Err: main returns the error.
RenderFails ==
  /\ pc = "render"
  /\ shown' = Snapshot
  /\ renders' = renders + 1
  /\ pc' = "aborted"
  /\ UNCHANGED << idx, i, sendVars, item, state, netVars, histVars >>
  /\ UNCHANGED orderVars
  /\ UNCHANGED callVars

Next ==
  \/ ForRuns
  \/ StreamNext
  \/ TimerFires
  \/ SelectWindow
  \/ SendToOk
  \/ SendToLost
  \/ SendToFails
  \/ RecvOk
  \/ RecvFails
  \/ WhileLet
  \/ RecordEntry
  \/ RecordMissed
  \/ RecordSent
  \/ RenderOk
  \/ RenderFails

Spec == Init /\ [][Next]_vars

\* ------------------------------------------------------------ vocabulary
Delivered == [tag |-> "Ok", val |-> TRUE]
Missed == [tag |-> "Ok", val |-> FALSE]
TransportErrs == {"SendErr", "RecvErr"}

\* send_msg has just returned: its locals still hold what the exchange did.
JustReturned == pc = "while"

\* Every swept id has the given totals.
AllStats(sent, missed) ==
  \A id \in Ids :
    /\ id \in DOMAIN state
    /\ state[id].sent = sent
    /\ state[id].missed = missed

\* ---------------------------------------------------------------- claims
\* C1: a round trip whose received datagram decodes to a number other than
\* the one sent is Missed; against a responder that always echoes n-1 (and
\* with no transport failure) every round trip of a full sweep is Missed.
C1_MismatchIsMissed ==
  /\ (JustReturned /\ out = "Mismatch") => item = Missed
  /\ (peer = "minus1" /\ ~faulted /\ pc = "done") => AllStats(NumMsgs, NumMsgs)

\* C2: a round trip whose send or receive failed at the transport layer
\* yields a failure, not an Outcome, and is never recorded.
C2_FailurePropagates ==
  /\ (JustReturned /\ out \in TransportErrs) => item.tag = "Err"
  /\ pc \in {"entry", "missed", "sent", "render"} => out \notin TransportErrs

\* C3 (as stated): missed <= sent for every id in every state of the map,
\* the states inside one record update included, and in every state handed
\* to the display sink.
C3_MissedLeSentAlways ==
  /\ \A id \in DOMAIN state : state[id].missed <= state[id].sent
  /\ \A id \in DOMAIN shown : shown[id].missed <= shown[id].sent

\* C3 (amended): missed <= sent for every id in every state between record
\* updates and in every state handed to the display sink; inside a record
\* update, after `missed` and before `sent` is incremented, missed may
\* exceed sent by one, for the id being updated only.
C3_MissedLeSentBetweenUpdates ==
  /\ \A id \in DOMAIN state :
       IF pc = "sent" /\ id = idx
         THEN state[id].missed <= state[id].sent + 1
         ELSE state[id].missed <= state[id].sent
  /\ \A id \in DOMAIN shown : shown[id].missed <= shown[id].sent

\* A snapshot in which every round trip of some id was missed has been
\* handed to the sink.
C3_Witness ==
  /\ renders > 0
  /\ \E id \in DOMAIN shown :
       shown[id].sent > 0 /\ shown[id].missed = shown[id].sent

\* C4: when the sweep has finished every id has sent = NumMsgs and
\* 0 <= missed <= NumMsgs, and no id ever has sent > NumMsgs.
C4_FullRun ==
  /\ pc = "done" =>
       /\ DOMAIN state = Ids
       /\ \A id \in Ids :
            /\ state[id].sent = NumMsgs
            /\ 0 <= state[id].missed
            /\ state[id].missed <= NumMsgs
  /\ \A id \in DOMAIN state : state[id].sent <= NumMsgs

\* The sweep has finished with some round trips missed and some delivered.
C4_Witness ==
  /\ pc = "done"
  /\ \E id \in DOMAIN state :
       0 < state[id].missed /\ state[id].missed < state[id].sent

\* C5: against a responder that never replies (and with no transport
\* failure) every round trip is Missed, each round trip returns only with
\* its timer elapsed, and after the sweep missed = sent = NumMsgs.
C5_SilentAllMissed ==
  (peer = "silent" /\ ~faulted) =>
    /\ JustReturned => (item = Missed /\ window = "elapsed")
    /\ pc \notin {"missed", "sent"} =>
         \A id \in DOMAIN state : state[id].missed = state[id].sent
    /\ pc = "done" => AllStats(NumMsgs, NumMsgs)

\* A sweep against the silent responder has finished.
C5_Witness ==
  /\ peer = "silent"
  /\ ~faulted
  /\ pc = "done"
  /\ AllStats(NumMsgs, NumMsgs)

\* C6: against a responder that echoes every payload unchanged, with every
\* echo received before its round trip's timer elapses (and no transport
\* failure), every round trip is Delivered: missed = 0 throughout and
\* sent = NumMsgs after the sweep.
C6_EchoAllDelivered ==
  (peer = "echo" /\ ~faulted /\ timely) =>
    /\ JustReturned => (item = Delivered /\ out = "Ok")
    /\ \A id \in DOMAIN state : state[id].missed = 0
    /\ pc = "done" => AllStats(NumMsgs, 0)

\* A sweep against the prompt echoing responder has finished.
C6_Witness ==
  /\ peer = "echo"
  /\ ~faulted
  /\ timely
  /\ pc = "done"
  /\ AllStats(NumMsgs, 0)

\* C7: send_msg returns only in a step taken with the timer elapsed, and
\* that step yields Ok(recv); the step that completes the exchange (match,
\* mismatch or failure) only sets `recv` and leaves send_msg running.
C7_OnlyTimerFinalizes ==
  [][ /\ (pc = "select" /\ pc' # "select") =>
           (window = "elapsed" /\ item' = [tag |-> "Ok", val |-> recv])
      /\ (pc = "select" /\ sr # "done" /\ sr' = "done") =>
           (pc' = "select" /\ item' = item /\ window' = window) ]_vars

\* send_msg has returned Delivered after a matching echo.
C7_Witness ==
  /\ JustReturned
  /\ out = "Ok"
  /\ item = Delivered

\* The k-th round trip of a sweep in (run, sequence number) order.
TripAt(k) == << (k - 1) \div NumMsgs, (k - 1) % NumMsgs >>

\* C8: at most one round trip is in flight at any time, and round trips
\* start in (run index, sequence number) order: 0, 1, ... within a run, run
\* k+1 after all of run k; a round trip is running, and a datagram can be
\* sent, only when every earlier round trip has returned.
C8_OneAtATimeInOrder ==
  /\ Len(trips) - finals \in {0, 1}
  /\ (pc = "select") = (Len(trips) - finals = 1)
  /\ \A k \in 1 .. Len(trips) : trips[k] = TripAt(k)
  /\ pc = "select" => trips[Len(trips)] = << idx, num >>

\* The first round trip of the second run is in flight, all round trips of
\* the first run having returned.
C8_Witness ==
  /\ pc = "select"
  /\ sr = "recving"
  /\ idx = 1
  /\ num = 0
  /\ finals = NumMsgs

\* The Stat of id in map m, a zero Stat if absent.
StatOf(m, id) == IF id \in DOMAIN m THEN m[id] ELSE DefaultStat

\* C9: a completed record update has created the entry of idx if absent and
\* increased sent[idx] by 1 and missed[idx] by 1 if the outcome is Missed
\* and by 0 if Delivered, leaving all other ids as they were; no step
\* removes an entry or decreases a counter.
C9_RecordExact ==
  /\ [](pc = "render" =>
         /\ DOMAIN state = DOMAIN prev \cup {idx}
         /\ state[idx].sent = StatOf(prev, idx).sent + 1
         /\ state[idx].missed =
              StatOf(prev, idx).missed + (IF item = Missed THEN 1 ELSE 0)
         /\ \A id \in DOMAIN prev : id # idx => state[id] = prev[id])
  /\ [][\A id \in DOMAIN state :
          /\ id \in DOMAIN state'
          /\ state'[id].sent >= state[id].sent
          /\ state'[id].missed >= state[id].missed]_vars

\* A Missed outcome has been recorded for a run whose entry the update
\* created, next to the entry of an earlier run.
C9_Witness ==
  /\ pc = "render"
  /\ item = Missed
  /\ prev # EmptyMap
  /\ idx \notin DOMAIN prev

\* The sum of sent over the ids 0 .. n of map m.
RECURSIVE SumSent(_, _)
SumSent(m, n) ==
  IF n < 0 THEN 0 ELSE StatOf(m, n).sent + SumSent(m, n - 1)

\* C10: console.render is called once after every completed record update
\* and at no other time, and the k-th call is handed the map as it is after
\* exactly k completed updates: the sum of sent over all ids is k.
C10_SnapshotPerRecord ==
  /\ renders = (IF pc = "render" THEN records - 1 ELSE records)
  /\ SumSent(shown, NumRuns - 1) = renders
  /\ pc \notin {"missed", "sent", "render"} => shown = state
  /\ pc = "render" => SumSent(state, NumRuns - 1) = records

\* The sink has been handed the snapshot of a finished sweep.
C10_Witness ==
  /\ pc = "done"
  /\ renders = NumRuns * NumMsgs
  /\ shown = state

UnitNums == {0, 1, 99, 255, 256, 65535, 65536, 16777217}
UnitSizes == {0, 7, 8, 9, 50, 100, 200}

unitFrame == << idx, i, num, window, sr, recv, item, state, peer, shown,
                renders, records, prev, faulted, timely, trips, finals,
                byte_size, nsent, nrecv >>

\* A run of `runs` (for its rate), a payload size and a sequence number.
UnitInit ==
  /\ pc = "unit"
  /\ idx \in 0 .. (Len(runs) - 1)
  /\ num \in UnitNums
  /\ byte_size \in UnitSizes
  /\ i = 0
  /\ window = "pending"
  /\ sr = "start"
  /\ out = "None"
  /\ recv = FALSE
  /\ item = [tag |-> "None"]
  /\ state = EmptyMap
  /\ inbox = <<>>
  /\ peer = "echo"
  /\ shown = EmptyMap
  /\ renders = 0
  /\ records = 0
  /\ prev = EmptyMap
  /\ faulted = FALSE
  /\ timely = TRUE
  /\ trips = <<>>
  /\ finals = 0
  /\ timeout = 0
  /\ nsent = 0
  /\ nrecv = 0

\* Run::new with the rate of run idx and the size byte_size; the stream
\* then calls send_msg with the Run's timeout.
UnitNew ==
  /\ pc = "unit"
  /\ timeout' = RunNew(runs[idx + 1].hertz, byte_size).timeout
  /\ pc' = "call"
  /\ UNCHANGED << unitFrame, inbox, out >>

\* The payload is built: the padding loop runs to its end.
UnitBuild ==
  /\ pc = "call"
  /\ FitsVec(PadCount(byte_size))
  /\ inbox' = << Payload >>
  /\ pc' = "built"
  /\ UNCHANGED << unitFrame, timeout, out >>

\* With overflow checks on, `byte_size - 8` panics for byte_size < 8.
UnitBuildPanics ==
  /\ pc = "call"
  /\ SubOverflows(byte_size)
  /\ pc' = "panic"
  /\ UNCHANGED << unitFrame, timeout, inbox, out >>

\* With overflow checks off, `byte_size - 8` wraps for byte_size < 8 and
\* the padding loop is entered with the wrapped count.
UnitBuildWraps ==
  /\ pc = "call"
  /\ SubOverflows(byte_size)
  /\ ~FitsVec(PadCount(byte_size))
  /\ pc' = "wrapped"
  /\ UNCHANGED << unitFrame, timeout, inbox, out >>

\* The padding loop with a count no Vec can hold ends when `msg.push`
\* cannot grow the vector.
UnitAllocFails ==
  /\ pc = "wrapped"
  /\ pc' = "oom"
  /\ UNCHANGED << unitFrame, timeout, inbox, out >>

\* The payload comes back unchanged and is received and decoded.
UnitDecode ==
  /\ pc = "built"
  /\ out' = Exchange(num, Head(inbox))
  /\ pc' = "decoded"
  /\ UNCHANGED << unitFrame, timeout, inbox >>

UnitNext ==
  \/ UnitNew
  \/ UnitBuild
  \/ UnitBuildPanics
  \/ UnitBuildWraps
  \/ UnitAllocFails
  \/ UnitDecode

SpecUnit == UnitInit /\ [][UnitNext]_vars

\* Byte k (from 1, least significant first) of the number n.
RECURSIVE ByteOf(_, _)
ByteOf(n, k) == IF k = 1 THEN n % 256 ELSE ByteOf(n \div 256, k - 1)

\* C12: for every sequence number n and every payload size s >= 8, the
\* payload has exactly s bytes, its first 8 bytes are n in little-endian
\* order, every other byte is 0xff, and the receiver's decoding of its first
\* 8 bytes yields n.
C12_EncodeDecode ==
  pc \in {"built", "decoded"} =>
    LET d == Head(inbox) IN
      /\ byte_size >= 8
      /\ Len(d) = byte_size
      /\ \A k \in 1 .. 8 : d[k] = ByteOf(num, k)
      /\ \A k \in 9 .. Len(d) : d[k] = 255
      /\ FromLeBytes(RecvInto(d)) = USize(num)
      /\ pc = "decoded" => out = "Ok"

\* A payload of more than 8 bytes for a number that needs four bytes has
\* been built and decoded.
C12_Witness ==
  /\ pc = "decoded"
  /\ num = 16777217
  /\ byte_size = 50
  /\ out = "Ok"

\* C13: with a payload size below 8 the build fails: no payload is
\* produced, no datagram is sent, and the padding length is never computed
\* as a wrapped-around value.
C13_SmallSizeFails ==
  (byte_size < 8 /\ pc \notin {"unit", "call"}) =>
    /\ pc = "panic"
    /\ inbox = <<>>

\* C14: the timeout of a Run is 1 second / rate (0.25 s for 4 Hz, 0.125 s
\* for 8 Hz, 0.0625 s for 16 Hz), and the value computed at construction is
\* the one every later step of the Run uses.
C14_Timeout ==
  /\ [](pc # "unit" =>
         /\ runs[idx + 1].hertz = 4 => timeout = 250000000
         /\ runs[idx + 1].hertz = 8 => timeout = 125000000
         /\ runs[idx + 1].hertz = 16 => timeout = 62500000)
  /\ [][pc # "unit" => timeout' = timeout]_vars

\* A call of a 16 Hz run has built its payload.
C14_Witness ==
  /\ pc = "built"
  /\ runs[idx + 1].hertz = 16
  /\ timeout = 62500000

\* The timer has elapsed and a matching echo is ready, not yet received.
Tie ==
  /\ pc = "select"
  /\ window = "elapsed"
  /\ sr = "recving"
  /\ inbox # <<>>
  /\ Exchange(num, Head(inbox)) = "Ok"

Steps ==
  \/ ForRuns
  \/ StreamNext
  \/ SelectWindow
  \/ WhileLet
  \/ RecordEntry
  \/ RecordMissed
  \/ RecordSent
  \/ RenderOk
  \/ RenderFails

\* The sweep with timers that fire and a program that keeps running.
FairSpec == Spec /\ WF_vars(TimerFires) /\ WF_vars(Steps)

\* C18: with timers that fire, every round trip returns, whatever the peer
\* and the network do, and the sweep terminates.
C18_Terminates ==
  /\ (pc = "select") ~> (pc = "while")
  /\ <>(pc \in {"done", "aborted"})

\* The sweep has run to its end against a peer that answers with a wrong
\* number and after a transport failure.
C18_Witness ==
  /\ pc = "done"
  /\ peer = "minus1"
  /\ faulted
  /\ records = NumRuns * NumMsgs

\* C19: the outcome of a round trip depends only on the reply to its own
\* payload: with a responder that echoes every datagram correctly no round
\* trip reads another round trip's echo, however late an earlier echo was.
C19_OwnReplyOnly ==
  (peer = "echo" /\ sr = "done" /\ nrecv = 1) => out = "Ok"

\* RunComponent::draw_unchecked: the line drawn for id from the map m.
Draw(m, id) ==
  IF id \in DOMAIN m
    THEN [sent |-> m[id].sent, missed |-> m[id].missed]
    ELSE "Not Started"

\* The ids present in m are 0..k: every id below k has all its round trips
\* recorded, id k has between lo and all of them, every id above k is drawn
\* as not started.
Prefix(m, lo) ==
  \/ /\ m = EmptyMap
     /\ \A id \in Ids : Draw(m, id) = "Not Started"
  \/ \E k \in Ids :
       /\ DOMAIN m = 0 .. k
       /\ \A id \in 0 .. (k - 1) : Draw(m, id).sent = NumMsgs
       /\ Draw(m, k).sent >= lo
       /\ Draw(m, k).sent <= NumMsgs
       /\ \A id \in Ids : id > k => Draw(m, id) = "Not Started"

\* No round trip so far failed at the transport layer.
NoFailedTrips == ~faulted

\* C20 (as stated): in every reachable state of a sweep without failed
\* round trips the present ids form a prefix 0..k with sent = NumMsgs below
\* k and 1 <= sent <= NumMsgs at k.
C20_PrefixEveryState == NoFailedTrips => Prefix(state, 1)

\* C20 (amended): in every state outside a record update, and in every
\* state handed to the display sink, the present ids form a prefix 0..k:
\* every id below k has sent = NumMsgs, id k has 1 <= sent <= NumMsgs and
\* every id above k is absent and drawn as not started.  An id becomes
\* present at the start of the record update of its first outcome, with
\* sent = 0 until that update increments it.
C20_PrefixBetweenUpdates ==
  /\ [](/\ pc \notin {"missed", "sent"} => Prefix(state, 1)
        /\ pc \in {"missed", "sent"} => Prefix(state, 0)
        /\ Prefix(shown, 1))
  /\ [][\A id \in Ids :
          (id \notin DOMAIN state /\ id \in DOMAIN state') =>
             /\ pc = "entry"
             /\ id = idx
             /\ i = 1
             /\ state'[id] = DefaultStat]_vars

\* The second id has just had its first outcome recorded and is shown with
\* sent = 1 next to the full first id.
C20_Witness ==
  /\ NoFailedTrips
  /\ pc = "next"
  /\ DOMAIN shown = {0, 1}
  /\ Draw(shown, 0).sent = NumMsgs
  /\ Draw(shown, 1).sent = 1

====
